---------------------------- MODULE Spec2Model ----------------------------
(***************************************************************************)
(* Model of openclaw-backup/scripts/backup.py: the command-line entry      *)
(* point main() and the three operations upload_backup, download_backup    *)
(* and delete_backup, one action per step of their code, together with     *)
(* the password generator.  The local file system, the external tar and    *)
(* openssl processes and the remote store are the environment: what they   *)
(* answer is chosen nondeterministically at the step that asks them.       *)
(***************************************************************************)
EXTENDS Integers, Sequences, FiniteSets, TLC

(***************************************************************************)
(* Bounds of the model                                                     *)
(***************************************************************************)
\* longest list of paths handed to upload_backup / stored in a remote blob
MaxFiles == 2
\* longest password requested from generate_password with an explicit length
MaxPwLen == 2
\* the capacity of an operating-system pipe, in units of output
PipeCapacity == 2
\* the most units of output a process writes to one of its streams
MaxOutput == 3
\* number of distinct outputs of the entropy source tried for a default-length password
NStreams == 2

(***************************************************************************)
(* Program constants                                                       *)
(***************************************************************************)
BASE_URL == "https://soul-upload.com"
MAX_BACKUP_SIZE == 20 * 1024 * 1024
PASSWORD_LENGTH == 32

\* Optional[...] values: None, or a one-element tuple holding the value
None == <<>>
Some(x) == <<x>>

\* the alphabet of generate_password, one character per element:
\* string.ascii_letters + string.digits + "!@#$%^&*()-_=+[]{}|;:,.<>?"
alphabet ==
    << "a","b","c","d","e","f","g","h","i","j","k","l","m",
       "n","o","p","q","r","s","t","u","v","w","x","y","z",
       "A","B","C","D","E","F","G","H","I","J","K","L","M",
       "N","O","P","Q","R","S","T","U","V","W","X","Y","Z",
       "0","1","2","3","4","5","6","7","8","9",
       "!","@","#","$","%","^","&","*","(",")","-","_","=","+",
       "[","]","{","}","|",";",":",",",".","<",">","?" >>

\* a generated password whose length is one more than requested
generate_password_off_by_one(length, choice) ==
    [i \in 1..(length + 1) |-> IF i <= length THEN alphabet[choice[i]] ELSE alphabet[1]]

\* generate_password(length): character i is secrets.choice(alphabet), whose
\* outcome is alphabet[choice[i]] for the index choice[i] the entropy source draws
generate_password(length, choice) ==
    [i \in 1..length |-> alphabet[choice[i]]]

\* def generate_password(length: int = PASSWORD_LENGTH)
length_or_default(arg) == IF arg = None THEN PASSWORD_LENGTH ELSE arg[1]

\* the draws of the entropy source tried for a default-length password
Stream(s) == [i \in 1..PASSWORD_LENGTH |-> ((s * i + s - 1) % Len(alphabet)) + 1]

(***************************************************************************)
(* Inputs and environment                                                  *)
(***************************************************************************)
Paths == {"a", "b"}
FileLists == UNION {[1..n -> Paths] : n \in 0..MaxFiles}
\* passwords a caller supplies: the empty string and a non-empty one
CallerPasswords == {<<>>, <<"p", "w">>}
\* args.command after parse_args; "invalid" stands for every argv that
\* argparse rejects (unknown subcommand, missing or unknown option)
Commands == {"none", "invalid", "upload", "download", "delete"}
required_tools == {"tar", "openssl", "curl"}
\* HTTP statuses the remote answers with
Statuses == {200, 201, 204, 400, 404, 413, 500}
\* response bodies of a non-success answer
Texts == {"", "server message"}
\* sizes of the encrypted artifact, around the ceiling
Sizes == {0, MAX_BACKUP_SIZE - 1, MAX_BACKUP_SIZE, MAX_BACKUP_SIZE + 1}
\* what response.json() finds in the body of a 200 answer
JsonKinds == {"object", "object_with_password", "not_an_object", "invalid"}

\* exceptions: one record shape for all of them
Exc(type, kind, paths, status, text) ==
    [type |-> type, kind |-> kind, paths |-> paths, status |-> status, text |-> text]
BackupError(kind) == Exc("BackupError", kind, <<>>, 0, "")
NoOutcome == [how |-> "running", exc |-> BackupError(""), value |-> <<>>]
Raised(e) == [how |-> "raise", exc |-> e, value |-> <<>>]
Returned(v) == [how |-> "return", exc |-> BackupError(""), value |-> v]

\* a line written to standard error or standard output
Line(kind, tag, secret) == [kind |-> kind, tag |-> tag, secret |-> secret]
Text(tag) == Line("text", tag, None)

\* a process handle: not started, running (returncode None), or exited
NoProc == [started |-> FALSE, returncode |-> None, key |-> None, stdout |-> <<>>]

\* the pipeline of two processes: what the producer (tar -c on upload, openssl
\* -d on download) and the consumer (openssl enc on upload, tar -x on download)
\* have still to write, what each pipe holds, and whether each process runs
PipeOf(prod_data, prod_err, cons_err, cons_out) ==
    [prod_data |-> prod_data, prod_err |-> prod_err,
     cons_err |-> cons_err, cons_out |-> cons_out,
     data_buf |-> 0, prod_err_buf |-> 0, cons_err_buf |-> 0, cons_out_buf |-> 0,
     prod |-> "running", cons |-> "running"]
NoPipe == [PipeOf(0, 0, 0, 0) EXCEPT !.prod = "none", !.cons = "none"]

NoResponse == [status_code |-> 0, text |-> "", json |-> "", content |-> None]

VARIABLES
    command,        \* args.command
    files,          \* the list of paths of an upload
    password_arg,   \* args.password: None or Some(password)
    backup_id,      \* args.backup_id
    fs_exists,      \* the paths that exist on the local file system
    pc,             \* the statement the program is at
    password,       \* the local variable password of the running operation
    temp_backup,    \* None, or Some(name) of the temporary file
    temp_on_disk,   \* whether the temporary file exists on disk
    temp_content,   \* what the temporary file holds: None or Some(blob)
    unlink_failed,  \* whether os.unlink raised in the cleanup
    tar_proc,       \* the tar process
    openssl_proc,   \* the openssl process
    backup_size,    \* os.path.getsize of the artifact, -1 before it is measured
    requests_sent,  \* the HTTP requests issued, in order
    response,       \* the answer to the last request
    outcome,        \* how the operation ended: running, return or raise
    dir_before,     \* the output directory before the call
    dir_now,        \* the output directory now
    stderr,         \* lines written to standard error
    stdout,         \* lines written to standard output
    exit_code,      \* the exit status of the process, -1 while it runs
    gen_arg,        \* generate_password: the length argument, None when omitted
    gen_result,     \* generate_password: None or Some(password)
    remote_store,   \* the blob an earlier upload left at the remote: None or Some(blob)
    pipe            \* the two piped processes and their pipes while they run

vars == << command, files, password_arg, backup_id, fs_exists, pc, password,
           temp_backup, temp_on_disk, temp_content, unlink_failed, tar_proc,
           openssl_proc,
           backup_size, requests_sent, response, outcome, dir_before, dir_now,
           stderr, stdout, exit_code, gen_arg, gen_result, remote_store, pipe >>

\* the output directory: whether it exists and the archive entries written into it
Dir(exists, entries) == [exists |-> exists, entries |-> entries]

\* the state common to every start: nothing has run yet
Blank ==
    /\ password = None
    /\ dir_now = dir_before
    /\ temp_backup = None
    /\ temp_on_disk = FALSE
    /\ temp_content = None
    /\ unlink_failed = FALSE
    /\ tar_proc = NoProc
    /\ openssl_proc = NoProc
    /\ backup_size = -1
    /\ requests_sent = <<>>
    /\ response = NoResponse
    /\ outcome = NoOutcome
    /\ stderr = <<>>
    /\ stdout = <<>>
    /\ exit_code = -1
    /\ gen_result = None

\* one invocation of the command-line program
Init ==
    /\ command \in Commands
    /\ pc = "m_import"
    /\ fs_exists \in SUBSET Paths
    /\ files \in IF command = "upload" THEN FileLists ELSE {<<>>}
    /\ password_arg \in
         CASE command = "upload" -> {None} \cup {Some(p) : p \in CallerPasswords}
           [] command = "download" -> {Some(p) : p \in CallerPasswords}
           [] OTHER -> {None}
    /\ backup_id = IF command \in {"download", "delete"} THEN "id1" ELSE ""
    /\ dir_before \in IF command = "download"
                        THEN {Dir(FALSE, <<>>), Dir(TRUE, <<>>)}
                        ELSE {Dir(TRUE, <<>>)}
    /\ gen_arg = None
    /\ remote_store = None
    /\ pipe = NoPipe
    /\ Blank

\* what no step of an operation writes: the arguments and the environment
inputs == << command, files, password_arg, backup_id, fs_exists, dir_before,
            remote_store, pipe >>
gen == << gen_arg, gen_result >>
procs == << tar_proc, openssl_proc >>
temp == << temp_backup, temp_on_disk, temp_content, unlink_failed >>
net == << requests_sent, response >>
out == << stderr, stdout, exit_code >>

(***************************************************************************)
(* main(): import, argument parsing and dependency check                   *)
(***************************************************************************)
\* lines 22-26: import requests; on ImportError a plain message goes to
\* standard error and the process exits with status 1
m_import ==
    /\ pc = "m_import"
    /\ \E ok \in BOOLEAN :
         IF ok
           THEN /\ pc' = "m_parse"
                /\ UNCHANGED << stderr, exit_code >>
           ELSE /\ stderr' = Append(stderr, Text("Error: 'requests' library not found"))
                /\ exit_code' = 1
                /\ pc' = "exited"
    /\ UNCHANGED << inputs, gen, procs, temp, net, password, backup_size,
                    outcome, dir_now, stdout >>

\* parser.parse_args() rejects the command line: argparse prints the usage
\* and the error to standard error and exits with status 2
m_parse_error ==
    /\ pc = "m_parse"
    /\ command = "invalid"
    /\ stderr' = Append(stderr, Text("usage"))
    /\ exit_code' = 2
    /\ pc' = "exited"
    /\ UNCHANGED << inputs, gen, procs, temp, net, password, backup_size,
                    outcome, dir_now, stdout >>

\* if not args.command: parser.print_help(); sys.exit(1)
m_no_command ==
    /\ pc = "m_parse"
    /\ command = "none"
    /\ stdout' = Append(stdout, Text("help"))
    /\ exit_code' = 1
    /\ pc' = "exited"
    /\ UNCHANGED << inputs, gen, procs, temp, net, password, backup_size,
                    outcome, dir_now, stderr >>

m_parse_ok ==
    /\ pc = "m_parse"
    /\ command \in {"upload", "download", "delete"}
    /\ pc' = "m_deps"
    /\ UNCHANGED << inputs, gen, procs, temp, net, out, password, backup_size,
                    outcome, dir_now >>

\* check_dependencies(), then the dispatch on args.command
check_dependencies ==
    /\ pc = "m_deps"
    /\ \E missing \in SUBSET required_tools :
         IF missing # {}
           THEN /\ outcome' = Raised(BackupError("Missing required tools"))
                /\ pc' = "m_except"
           ELSE /\ outcome' = outcome
                /\ pc' = CASE command = "upload" -> "u_resolve"
                           [] command = "download" -> "d_mktemp"
                           [] OTHER -> "x_request"
    /\ UNCHANGED << inputs, gen, procs, temp, net, out, password, backup_size,
                    dir_now >>

(***************************************************************************)
(* upload_backup(files, password)                                          *)
(***************************************************************************)
password_is_falsy(arg) == arg = None \/ arg = Some(<<>>)

\* if password is None
password_is_None(arg) == arg = None

\* lines 84-87: resolve the key; a generated one is printed to standard error
u_resolve ==
    /\ pc = "u_resolve"
    /\ IF password_is_None(password_arg)
         THEN \E s \in 1..NStreams :
                /\ password' = Some(generate_password(length_or_default(None),
                                                       Stream(s)))
                /\ stderr' = Append(stderr,
                                Line("text", "Auto-generated password", password'))
         ELSE /\ password' = password_arg
              /\ stderr' = stderr
    /\ pc' = "u_validate"
    /\ UNCHANGED << inputs, gen, procs, temp, net, backup_size, outcome, dir_now,
                    stdout, exit_code >>

first_missing_file(fs, existing) ==
    LET all == SelectSeq(fs, LAMBDA f : f \notin existing)
    IN  IF all = <<>> THEN <<>> ELSE << all[1] >>

\* missing_files = [f for f in files if not os.path.exists(f)]
missing_files(fs, existing) == SelectSeq(fs, LAMBDA f : f \notin existing)

\* lines 89-92: raise BackupError("Files not found: ...") before the try block
u_validate ==
    /\ pc = "u_validate"
    /\ LET missing == missing_files(files, fs_exists)
       IN  IF missing # <<>>
             THEN /\ outcome' = Raised(Exc("BackupError", "Files not found",
                                           missing, 0, ""))
                  /\ pc' = "m_except"
             ELSE /\ outcome' = outcome
                  /\ pc' = "u_mktemp"
    /\ UNCHANGED << inputs, gen, procs, temp, net, out, password, backup_size,
                    dir_now >>

\* lines 94-98: tempfile.NamedTemporaryFile(suffix='.tar.gz', delete=False)
u_mktemp ==
    /\ pc = "u_mktemp"
    /\ \E ok \in BOOLEAN :
         IF ok
           THEN /\ temp_backup' = Some("tmp.tar.gz")
                /\ temp_on_disk' = TRUE
                /\ outcome' = outcome
                /\ pc' = "u_popen_tar"
           ELSE /\ UNCHANGED << temp_backup, temp_on_disk >>
                /\ outcome' = Raised(Exc("OSError", "tempfile", <<>>, 0, ""))
                /\ pc' = "u_finally"
    /\ UNCHANGED << inputs, gen, procs, net, out, password, backup_size, dir_now,
                    temp_content, unlink_failed >>

\* lines 100-113: the progress line, then subprocess.Popen(tar_cmd, ...)
u_popen_tar ==
    /\ pc = "u_popen_tar"
    /\ stderr' = Append(stderr, Text("Encrypting"))
    /\ \E ok \in BOOLEAN :
         IF ok
           THEN /\ tar_proc' = [tar_proc EXCEPT !.started = TRUE]
                /\ outcome' = outcome
                /\ pc' = "u_popen_openssl"
           ELSE /\ tar_proc' = tar_proc
                /\ outcome' = Raised(Exc("OSError", "Popen tar", <<>>, 0, ""))
                /\ pc' = "u_finally"
    /\ UNCHANGED << inputs, gen, openssl_proc, temp, net, password, backup_size,
                    dir_now, stdout, exit_code >>

\* lines 106-116: subprocess.Popen(openssl_cmd, ...) with "-k", password
u_popen_openssl ==
    /\ pc = "u_popen_openssl"
    /\ \E ok \in BOOLEAN :
         IF ok
           THEN /\ openssl_proc' = [openssl_proc EXCEPT !.started = TRUE,
                                                       !.key = password]
                /\ outcome' = outcome
                /\ pc' = "u_communicate"
           ELSE /\ openssl_proc' = openssl_proc
                /\ outcome' = Raised(Exc("OSError", "Popen openssl", <<>>, 0, ""))
                /\ pc' = "u_finally"
    /\ UNCHANGED << inputs, gen, tar_proc, temp, net, out, password, backup_size,
                    dir_now >>

\* the content of a file, by its path
file_data == [p \in Paths |-> <<"data of", p>>]

\* tar -czf - files: one entry per path, in the order given
tar_create(fs) == [i \in 1..Len(fs) |-> [name |-> fs[i], data |-> file_data[fs[i]]]]

\* openssl enc -aes-256-cbc -salt -k key: the ciphertext of a stream under a key
openssl_enc(stream, key) == [archive |-> stream, key |-> key, intact |-> TRUE]

\* lines 118-120: openssl_proc.communicate() and tar_proc.wait(); both
\* processes have exited, each with the status the environment gave it
u_communicate ==
    /\ pc = "u_communicate"
    /\ \E trc \in {0, 2}, orc \in {0, 1} :
         /\ tar_proc' = [tar_proc EXCEPT !.returncode = Some(trc)]
         /\ openssl_proc' = [openssl_proc EXCEPT !.returncode = Some(orc)]
         /\ temp_content' =
              Some([openssl_enc(IF trc = 0 THEN tar_create(files) ELSE <<>>,
                                password[1])
                      EXCEPT !.intact = (trc = 0 /\ orc = 0)])
    /\ pc' = "u_check_rc"
    /\ UNCHANGED << inputs, gen, net, out, password, backup_size, outcome, dir_now,
                    temp_backup, temp_on_disk, unlink_failed >>

u_check_rc_ignoring_tar ==
    /\ pc = "u_check_rc"
    /\ IF openssl_proc.returncode # Some(0)
         THEN /\ outcome' = Raised(BackupError("openssl encryption failed"))
              /\ pc' = "u_finally"
         ELSE /\ outcome' = outcome
              /\ pc' = "u_getsize"
    /\ UNCHANGED << inputs, gen, procs, temp, net, out, password, backup_size,
                    dir_now >>

\* lines 122-125
u_check_rc ==
    /\ pc = "u_check_rc"
    /\ IF tar_proc.returncode # Some(0)
         THEN /\ outcome' = Raised(BackupError("tar command failed"))
              /\ pc' = "u_finally"
         ELSE IF openssl_proc.returncode # Some(0)
                THEN /\ outcome' = Raised(BackupError("openssl encryption failed"))
                     /\ pc' = "u_finally"
                ELSE /\ outcome' = outcome
                     /\ pc' = "u_getsize"
    /\ UNCHANGED << inputs, gen, procs, temp, net, out, password, backup_size,
                    dir_now >>

size_at_or_over_limit(size) == size >= MAX_BACKUP_SIZE

\* if backup_size > MAX_BACKUP_SIZE
size_exceeds_limit(size) == size > MAX_BACKUP_SIZE

\* lines 127-135: measure the artifact and compare with the ceiling
u_getsize ==
    /\ pc = "u_getsize"
    /\ \E size \in Sizes :
         /\ backup_size' = size
         /\ IF size_exceeds_limit(size)
              THEN /\ outcome' = Raised(BackupError("Backup size exceeds limit"))
                   /\ pc' = "u_finally"
              ELSE /\ outcome' = outcome
                   /\ pc' = "u_post"
    /\ stderr' = Append(stderr, Text("Encrypted backup size"))
    /\ UNCHANGED << inputs, gen, procs, temp, net, password, dir_now, stdout,
                    exit_code >>

Request(method, url, headers, body) ==
    [method |-> method, url |-> url, headers |-> headers, body |-> body]

upload_status_error_413_generic(status) ==
    IF status # 200 THEN "Upload failed" ELSE ""

\* lines 152-157: the error the status of the POST answer maps to, "" for none
upload_status_error(status) ==
    IF status = 413 THEN "File too large"
    ELSE IF status # 200 THEN "Upload failed" ELSE ""

u_post_retrying ==
    /\ pc = "u_post"
    /\ stderr' = Append(stderr, Text("Uploading"))
    /\ requests_sent' = Append(requests_sent,
          Request("POST", << BASE_URL, "/backup" >>,
                  << << "Content-Type", "application/octet-stream" >>,
                     << "X-Backup-Filename", "backup.tar.gz" >> >>,
                  temp_content))
    /\ \/ /\ Len(requests_sent) = 0
          /\ UNCHANGED << outcome, response, pc >>
       \/ /\ Len(requests_sent) > 0
          /\ outcome' = Raised(Exc("RequestException", "post", <<>>, 0, ""))
          /\ response' = response
          /\ pc' = "u_finally"
       \/ /\ \E st \in Statuses :
               \/ st = 200 /\ \E j \in JsonKinds :
                    response' = [NoResponse EXCEPT !.status_code = st, !.json = j]
               \/ st # 200 /\ \E t \in Texts :
                    response' = [NoResponse EXCEPT !.status_code = st, !.text = t]
          /\ outcome' = outcome
          /\ pc' = "u_status"
    /\ UNCHANGED << inputs, gen, procs, temp, password, backup_size, dir_now,
                    stdout, exit_code >>

\* lines 137-150: requests.post(BASE_URL/backup, data=f, headers=headers)
u_post ==
    /\ pc = "u_post"
    /\ stderr' = Append(stderr, Text("Uploading"))
    /\ requests_sent' = Append(requests_sent,
          Request("POST", << BASE_URL, "/backup" >>,
                  << << "Content-Type", "application/octet-stream" >>,
                     << "X-Backup-Filename", "backup.tar.gz" >> >>,
                  temp_content))
    /\ \/ /\ outcome' = Raised(Exc("RequestException", "post", <<>>, 0, ""))
          /\ response' = response
          /\ pc' = "u_finally"
       \/ /\ \E st \in Statuses :
               \/ st = 200 /\ \E j \in JsonKinds :
                    response' = [NoResponse EXCEPT !.status_code = st, !.json = j]
               \/ st # 200 /\ \E t \in Texts :
                    response' = [NoResponse EXCEPT !.status_code = st, !.text = t]
          /\ outcome' = outcome
          /\ pc' = "u_status"
    /\ UNCHANGED << inputs, gen, procs, temp, password, backup_size, dir_now,
                    stdout, exit_code >>

\* lines 152-157
u_status ==
    /\ pc = "u_status"
    /\ LET err == upload_status_error(response.status_code)
       IN  IF err # ""
             THEN /\ outcome' = Raised(Exc("BackupError", err, <<>>,
                                 IF err = "Upload failed" THEN response.status_code ELSE 0,
                                 IF err = "Upload failed" THEN response.text ELSE ""))
                  /\ pc' = "u_finally"
             ELSE /\ outcome' = outcome
                  /\ pc' = "u_result"
    /\ UNCHANGED << inputs, gen, procs, temp, net, out, password, backup_size,
                    dir_now >>

\* the password a remote answer may carry in its JSON
RemotePassword == << "r" >>

\* response.json() of an answer whose body is a JSON object
remote_json(kind) ==
    [backupId |-> "id1",
     password |-> IF kind = "object_with_password" THEN Some(RemotePassword) ELSE None]

\* lines 159-166: result = response.json(); result['password'] = password
u_result ==
    /\ pc = "u_result"
    /\ IF response.json = "invalid"
         THEN /\ outcome' = Raised(Exc("ValueError", "response.json", <<>>, 0, ""))
              /\ stderr' = stderr
         ELSE IF response.json = "not_an_object"
           THEN /\ outcome' = Raised(Exc("TypeError", "item assignment", <<>>, 0, ""))
                /\ stderr' = stderr
           ELSE /\ outcome' = Returned([remote_json(response.json)
                                          EXCEPT !.password = password])
                /\ stderr' = Append(stderr, Text("Upload successful!"))
    /\ pc' = "u_finally"
    /\ UNCHANGED << inputs, gen, procs, temp, net, password, backup_size, dir_now,
                    stdout, exit_code >>

cleanup_never(tb, on_disk) == FALSE

\* if temp_backup and os.path.exists(temp_backup.name)
cleanup_needed(tb, on_disk) == tb # None /\ on_disk

\* the finally block of upload_backup and download_backup: os.unlink inside
\* try/except Exception: pass, so a failing unlink leaves the file and is silent
finally_block ==
    /\ IF cleanup_needed(temp_backup, temp_on_disk)
         THEN \E ok \in BOOLEAN :
                /\ temp_on_disk' = ~ok
                /\ unlink_failed' = ~ok
         ELSE UNCHANGED << temp_on_disk, unlink_failed >>
    /\ pc' = IF outcome.how = "return" THEN "m_result" ELSE "m_except"
    /\ UNCHANGED << inputs, gen, procs, net, out, password, backup_size, outcome,
                    dir_now, temp_backup, temp_content >>

\* lines 168-174
u_finally == pc = "u_finally" /\ finally_block

(***************************************************************************)
(* download_backup(backup_id, password, output_dir)                        *)
(***************************************************************************)
\* the blobs the remote may hold: an archive encrypted under some key, whole
\* or damaged (truncated or corrupted ciphertext)
RemoteBlobs ==
    { [openssl_enc(tar_create(fl), k) EXCEPT !.intact = b] :
        fl \in FileLists, k \in CallerPasswords, b \in BOOLEAN }

d_mktemp_after_makedirs ==
    /\ pc = "d_mktemp"
    /\ password' = password_arg
    /\ dir_now' = [dir_now EXCEPT !.exists = TRUE]
    /\ \E ok \in BOOLEAN :
         IF ok
           THEN /\ temp_backup' = Some("tmp.tar.gz")
                /\ temp_on_disk' = TRUE
                /\ outcome' = outcome
                /\ pc' = "d_request"
           ELSE /\ UNCHANGED << temp_backup, temp_on_disk >>
                /\ outcome' = Raised(Exc("OSError", "tempfile", <<>>, 0, ""))
                /\ pc' = "d_finally"
    /\ UNCHANGED << inputs, gen, procs, net, out, backup_size, temp_content,
                    unlink_failed >>

\* lines 189-193: the call binds password; NamedTemporaryFile(delete=False)
d_mktemp ==
    /\ pc = "d_mktemp"
    /\ password' = password_arg
    /\ \E ok \in BOOLEAN :
         IF ok
           THEN /\ temp_backup' = Some("tmp.tar.gz")
                /\ temp_on_disk' = TRUE
                /\ outcome' = outcome
                /\ pc' = "d_request"
           ELSE /\ UNCHANGED << temp_backup, temp_on_disk >>
                /\ outcome' = Raised(Exc("OSError", "tempfile", <<>>, 0, ""))
                /\ pc' = "d_finally"
    /\ UNCHANGED << inputs, gen, procs, net, out, backup_size, dir_now,
                    temp_content, unlink_failed >>

\* the bodies a 200 answer to the GET may have: the blob stored by the upload
\* whose descriptor names backup_id, any blob when no upload is known
blobs_served == IF remote_store = None THEN RemoteBlobs ELSE {remote_store[1]}

\* lines 195-202: requests.get(BASE_URL/backup/{backup_id}, allow_redirects=True)
d_request ==
    /\ pc = "d_request"
    /\ stderr' = Append(stderr, Text("Downloading backup"))
    /\ requests_sent' = Append(requests_sent,
          Request("GET", << BASE_URL, "/backup/", backup_id >>, <<>>, None))
    /\ \/ /\ outcome' = Raised(Exc("RequestException", "get", <<>>, 0, ""))
          /\ response' = response
          /\ pc' = "d_finally"
       \/ /\ \E st \in Statuses :
               \/ st = 200 /\ \E blob \in blobs_served :
                    response' = [NoResponse EXCEPT !.status_code = st,
                                                   !.content = Some(blob)]
               \/ st # 200 /\ \E t \in Texts :
                    response' = [NoResponse EXCEPT !.status_code = st, !.text = t]
          /\ outcome' = outcome
          /\ pc' = "d_status"
    /\ UNCHANGED << inputs, gen, procs, temp, password, backup_size, dir_now,
                    stdout, exit_code >>

\* lines 204-209: the error the status of the GET answer maps to, "" for none
download_status_error(status) ==
    IF status = 404 THEN "Backup not found"
    ELSE IF status # 200 THEN "Download failed" ELSE ""

\* lines 204-209
d_status ==
    /\ pc = "d_status"
    /\ LET err == download_status_error(response.status_code)
       IN  IF err # ""
             THEN /\ outcome' = Raised(Exc("BackupError", err, <<>>,
                                 IF err = "Download failed" THEN response.status_code ELSE 0,
                                 IF err = "Download failed" THEN response.text ELSE ""))
                  /\ pc' = "d_finally"
             ELSE /\ outcome' = outcome
                  /\ pc' = "d_save"
    /\ UNCHANGED << inputs, gen, procs, temp, net, out, password, backup_size,
                    dir_now >>

\* lines 211-215: write response.content to the temporary file
d_save ==
    /\ pc = "d_save"
    /\ \E ok \in BOOLEAN :
         IF ok
           THEN /\ temp_content' = response.content
                /\ stderr' = Append(stderr, Text("Downloaded"))
                /\ outcome' = outcome
                /\ pc' = "d_makedirs"
           ELSE /\ UNCHANGED << temp_content, stderr >>
                /\ outcome' = Raised(Exc("OSError", "write", <<>>, 0, ""))
                /\ pc' = "d_finally"
    /\ UNCHANGED << inputs, gen, procs, net, password, backup_size, dir_now,
                    temp_backup, temp_on_disk, unlink_failed, stdout, exit_code >>

\* lines 217-221: os.makedirs(output_dir, exist_ok=True)
d_makedirs ==
    /\ pc = "d_makedirs"
    /\ stderr' = Append(stderr, Text("Decrypting and extracting"))
    /\ \E ok \in BOOLEAN :
         IF ok
           THEN /\ dir_now' = [dir_now EXCEPT !.exists = TRUE]
                /\ outcome' = outcome
                /\ pc' = "d_popen_openssl"
           ELSE /\ dir_now' = dir_now
                /\ outcome' = Raised(Exc("OSError", "makedirs", <<>>, 0, ""))
                /\ pc' = "d_finally"
    /\ UNCHANGED << inputs, gen, procs, temp, net, password, backup_size, stdout,
                    exit_code >>

\* lines 223-234: subprocess.Popen(openssl_cmd, ...) with "-d", "-k", password
d_popen_openssl ==
    /\ pc = "d_popen_openssl"
    /\ \E ok \in BOOLEAN :
         IF ok
           THEN /\ openssl_proc' = [openssl_proc EXCEPT !.started = TRUE,
                                                       !.key = password]
                /\ outcome' = outcome
                /\ pc' = "d_popen_tar"
           ELSE /\ openssl_proc' = openssl_proc
                /\ outcome' = Raised(Exc("OSError", "Popen openssl", <<>>, 0, ""))
                /\ pc' = "d_finally"
    /\ UNCHANGED << inputs, gen, tar_proc, temp, net, out, password, backup_size,
                    dir_now >>

\* lines 229-237: subprocess.Popen(tar_cmd, stdin=openssl_proc.stdout, ...)
d_popen_tar ==
    /\ pc = "d_popen_tar"
    /\ \E ok \in BOOLEAN :
         IF ok
           THEN /\ tar_proc' = [tar_proc EXCEPT !.started = TRUE]
                /\ outcome' = outcome
                /\ pc' = "d_communicate"
           ELSE /\ tar_proc' = tar_proc
                /\ outcome' = Raised(Exc("OSError", "Popen tar", <<>>, 0, ""))
                /\ pc' = "d_finally"
    /\ UNCHANGED << inputs, gen, openssl_proc, temp, net, out, password,
                    backup_size, dir_now >>

\* openssl enc -d -k key: the key fits and the ciphertext is whole
openssl_dec_ok(blob, key) == blob.key = key /\ blob.intact

\* the plaintext openssl enc -d can emit: the archive under the right key
\* (all of it, or the part before the damage), nothing usable under a wrong key
openssl_dec_plain(blob, key) == IF blob.key = key THEN blob.archive ELSE <<>>

\* lines 239-241: tar_proc.communicate() and openssl_proc.wait().  tar has
\* written the first n entries it read and printed their names (-v); its
\* status is 0 only if it read the whole archive; openssl ends 0 when the
\* decryption is good (or dies of SIGPIPE when tar stopped reading early)
d_communicate ==
    /\ pc = "d_communicate"
    /\ LET blob == temp_content[1]
           key == password[1]
           plain == openssl_dec_plain(blob, key)
       IN  \E n \in 0..Len(plain), trc \in {0, 2}, orc \in {0, 1, 0 - 13} :
             /\ trc = 0 => (blob.key = key /\ n = Len(plain))
             /\ IF openssl_dec_ok(blob, key)
                  THEN orc = 0 \/ (orc = 0 - 13 /\ trc # 0)
                  ELSE orc = 1
             /\ tar_proc' = [tar_proc EXCEPT
                               !.returncode = Some(trc),
                               !.stdout = [i \in 1..n |-> plain[i].name]]
             /\ openssl_proc' = [openssl_proc EXCEPT !.returncode = Some(orc)]
             /\ dir_now' = [dir_now EXCEPT
                               !.entries = dir_now.entries \o SubSeq(plain, 1, n)]
    /\ pc' = "d_check_rc"
    /\ UNCHANGED << inputs, gen, temp, net, out, password, backup_size, outcome >>

download_pipeline_error_tar_first(orc, trc) ==
    IF trc # Some(0) THEN "tar extraction failed"
    ELSE IF orc # Some(0) THEN "Decryption failed" ELSE ""

\* lines 243-248: the decrypt status is looked at first
download_pipeline_error(orc, trc) ==
    IF orc # Some(0) THEN "Decryption failed"
    ELSE IF trc # Some(0) THEN "tar extraction failed" ELSE ""

\* lines 243-248
d_check_rc ==
    /\ pc = "d_check_rc"
    /\ LET err == download_pipeline_error(openssl_proc.returncode,
                                          tar_proc.returncode)
       IN  IF err # ""
             THEN /\ outcome' = Raised(BackupError(err))
                  /\ pc' = "d_finally"
             ELSE /\ outcome' = outcome
                  /\ pc' = "d_return"
    /\ UNCHANGED << inputs, gen, procs, temp, net, out, password, backup_size,
                    dir_now >>

extracted_files_with_blank(tar_stdout) == tar_stdout \o << "" >>

\* lines 250-254: the non-blank lines of tar's listing, which ends every name
\* with a newline (so split('\n') yields one empty last piece)
extracted_files_of(tar_stdout) ==
    SelectSeq(tar_stdout \o << "" >>, LAMBDA line : line # "")

\* lines 250-258
d_return ==
    /\ pc = "d_return"
    /\ outcome' = Returned(extracted_files_of(tar_proc.stdout))
    /\ stderr' = Append(stderr, Text("Successfully extracted"))
    /\ pc' = "d_finally"
    /\ UNCHANGED << inputs, gen, procs, temp, net, password, backup_size, dir_now,
                    stdout, exit_code >>

\* lines 260-266
d_finally == pc = "d_finally" /\ finally_block

(***************************************************************************)
(* delete_backup(backup_id)                                                *)
(***************************************************************************)
\* lines 279-284: requests.delete(BASE_URL/backup/{backup_id}, timeout=30)
x_request ==
    /\ pc = "x_request"
    /\ stderr' = Append(stderr, Text("Deleting backup"))
    /\ requests_sent' = Append(requests_sent,
          Request("DELETE", << BASE_URL, "/backup/", backup_id >>, <<>>, None))
    /\ \/ /\ outcome' = Raised(Exc("RequestException", "delete", <<>>, 0, ""))
          /\ response' = response
          /\ pc' = "m_except"
       \/ /\ \E st \in Statuses :
               \/ st = 200 /\ \E j \in JsonKinds :
                    response' = [NoResponse EXCEPT !.status_code = st, !.json = j]
               \/ st # 200 /\ \E t \in Texts :
                    response' = [NoResponse EXCEPT !.status_code = st, !.text = t]
          /\ outcome' = outcome
          /\ pc' = "x_status"
    /\ UNCHANGED << inputs, gen, procs, temp, password, backup_size, dir_now,
                    stdout, exit_code >>

\* lines 286-291: the error the status of the DELETE answer maps to, "" for none
delete_status_error(status) ==
    IF status = 404 THEN "Backup not found"
    ELSE IF status # 200 THEN "Delete failed" ELSE ""

\* lines 286-291
x_status ==
    /\ pc = "x_status"
    /\ LET err == delete_status_error(response.status_code)
       IN  IF err # ""
             THEN /\ outcome' = Raised(Exc("BackupError", err, <<>>,
                                 IF err = "Delete failed" THEN response.status_code ELSE 0,
                                 IF err = "Delete failed" THEN response.text ELSE ""))
                  /\ pc' = "m_except"
             ELSE /\ outcome' = outcome
                  /\ pc' = "x_result"
    /\ UNCHANGED << inputs, gen, procs, temp, net, out, password, backup_size,
                    dir_now >>

\* lines 293-296: result = response.json(); return result
x_result ==
    /\ pc = "x_result"
    /\ IF response.json = "invalid"
         THEN /\ outcome' = Raised(Exc("ValueError", "response.json", <<>>, 0, ""))
              /\ stderr' = stderr
              /\ pc' = "m_except"
         ELSE /\ outcome' = Returned(<< response.json >>)
              /\ stderr' = Append(stderr, Text("Delete successful!"))
              /\ pc' = "m_result"
    /\ UNCHANGED << inputs, gen, procs, temp, net, password, backup_size, dir_now,
                    stdout, exit_code >>

(***************************************************************************)
(* main(): the end of the run                                              *)
(***************************************************************************)
\* lines 341, 345-350, 354 and 356: print(json.dumps(result)); sys.exit(0)
m_result ==
    /\ pc = "m_result"
    /\ stdout' = Append(stdout,
          Line("json", "result",
               IF command = "upload" THEN outcome.value.password ELSE None))
    /\ exit_code' = 0
    /\ pc' = "exited"
    /\ UNCHANGED << inputs, gen, procs, temp, net, password, backup_size, outcome,
                    dir_now, stderr >>

m_except_without_exit ==
    /\ pc = "m_except"
    /\ stderr' = Append(stderr, Line("json_error", outcome.exc.kind, None))
    /\ exit_code' = 0
    /\ pc' = "exited"
    /\ UNCHANGED << inputs, gen, procs, temp, net, password, backup_size, outcome,
                    dir_now, stdout >>

\* lines 358-366: the three handlers print {"error": ...} to standard error
\* (str(e), "Network error: ..." or "Unexpected error: ...") and sys.exit(1)
m_except ==
    /\ pc = "m_except"
    /\ stderr' = Append(stderr,
          Line("json_error",
               CASE outcome.exc.type = "BackupError" -> outcome.exc.kind
                 [] outcome.exc.type = "RequestException" -> "Network error"
                 [] OTHER -> "Unexpected error",
               None))
    /\ exit_code' = 1
    /\ pc' = "exited"
    /\ UNCHANGED << inputs, gen, procs, temp, net, password, backup_size, outcome,
                    dir_now, stdout >>

Next ==
    \/ m_import \/ m_parse_error \/ m_no_command \/ m_parse_ok \/ check_dependencies
    \/ u_resolve \/ u_validate \/ u_mktemp \/ u_popen_tar \/ u_popen_openssl
    \/ u_communicate \/ u_check_rc \/ u_getsize \/ u_post \/ u_status
    \/ u_result \/ u_finally
    \/ d_mktemp \/ d_request \/ d_status \/ d_save \/ d_makedirs
    \/ d_popen_openssl \/ d_popen_tar \/ d_communicate \/ d_check_rc
    \/ d_return \/ d_finally
    \/ x_request \/ x_status \/ x_result
    \/ m_result \/ m_except

Spec == Init /\ [][Next]_vars

(***************************************************************************)
(* generate_password on its own: every requested length up to MaxPwLen     *)
(* with every draw of the entropy source, and the call without argument    *)
(***************************************************************************)
InitGen ==
    /\ command = "none"
    /\ pc = "g_call"
    /\ fs_exists = {}
    /\ files = <<>>
    /\ password_arg = None
    /\ backup_id = ""
    /\ dir_before = Dir(TRUE, <<>>)
    /\ gen_arg \in {None} \cup {Some(n) : n \in 0..MaxPwLen}
    /\ remote_store = None
    /\ pipe = NoPipe
    /\ Blank

\* lines 39-52
g_generate ==
    /\ pc = "g_call"
    /\ LET length == length_or_default(gen_arg)
       IN  \E choice \in IF gen_arg = None
                           THEN {Stream(s) : s \in 1..NStreams}
                           ELSE [1..length -> 1..Len(alphabet)] :
             gen_result' = Some(generate_password(length, choice))
    /\ pc' = "g_done"
    /\ UNCHANGED << inputs, gen_arg, procs, temp, net, out, password, backup_size,
                    outcome, dir_now >>

NextGen == g_generate

SpecGen == InitGen /\ [][NextGen]_vars

(***************************************************************************)
(* The two-process pipelines, write by write.  Upload (lines 113-120): tar  *)
(* is the producer (stdout and stderr are pipes), openssl the consumer      *)
(* (stdin is tar's stdout, stderr is a pipe); the program runs              *)
(* openssl_proc.communicate(), then tar_proc.wait().  Download (lines       *)
(* 233-241): openssl is the producer (stdout and stderr are pipes), tar the *)
(* consumer (stdout and stderr are pipes); the program runs                 *)
(* tar_proc.communicate(), then openssl_proc.wait().  communicate() reads   *)
(* the pipes of the consumer only; nothing reads the producer's stderr.     *)
(***************************************************************************)
InitPipe ==
    /\ command \in {"upload", "download"}
    /\ pc = "p_communicate"
    /\ fs_exists = {}
    /\ files = <<>>
    /\ password_arg = None
    /\ backup_id = ""
    /\ dir_before = Dir(TRUE, <<>>)
    /\ gen_arg = None
    /\ remote_store = None
    /\ \E pd, pe, ce \in 0..MaxOutput :
         \E co \in IF command = "download" THEN 0..MaxOutput ELSE {0} :
            pipe = PipeOf(pd, pe, ce, co)
    /\ Blank

pipe_frame == << command, files, password_arg, backup_id, fs_exists, dir_before,
                remote_store, gen, procs, temp, net, out, password, backup_size,
                outcome, dir_now >>

\* the producer writes a unit of its stdout into the data pipe; the write
\* blocks while the pipe is full
p_prod_write_data ==
    /\ pipe.prod = "running" /\ pipe.cons = "running"
    /\ pipe.prod_data > 0
    /\ pipe.data_buf < PipeCapacity
    /\ pipe' = [pipe EXCEPT !.prod_data = @ - 1, !.data_buf = @ + 1]
    /\ UNCHANGED << pc, pipe_frame >>

\* the consumer has exited and the program closed its copy of the read end
\* (lines 116, 237): the producer's next write to the data pipe kills it
p_prod_sigpipe ==
    /\ pipe.prod = "running" /\ pipe.cons = "exited"
    /\ pipe.prod_data > 0
    /\ pipe' = [pipe EXCEPT !.prod = "exited"]
    /\ UNCHANGED << pc, pipe_frame >>

\* the producer writes a unit of diagnostics into its stderr pipe
\* (stderr=subprocess.PIPE, lines 113 and 234); the write blocks while the
\* pipe is full, and the program holds the read end without reading it
p_prod_write_err ==
    /\ pipe.prod = "running"
    /\ pipe.prod_err > 0
    /\ pipe.prod_err_buf < PipeCapacity
    /\ pipe' = [pipe EXCEPT !.prod_err = @ - 1, !.prod_err_buf = @ + 1]
    /\ UNCHANGED << pc, pipe_frame >>

\* the producer has written everything and exits
p_prod_exit ==
    /\ pipe.prod = "running"
    /\ pipe.prod_data = 0 /\ pipe.prod_err = 0
    /\ pipe' = [pipe EXCEPT !.prod = "exited"]
    /\ UNCHANGED << pc, pipe_frame >>

\* the consumer reads a unit from the data pipe
p_cons_read ==
    /\ pipe.cons = "running"
    /\ pipe.data_buf > 0
    /\ pipe' = [pipe EXCEPT !.data_buf = @ - 1]
    /\ UNCHANGED << pc, pipe_frame >>

\* the consumer writes a unit of diagnostics into its stderr pipe
p_cons_write_err ==
    /\ pipe.cons = "running"
    /\ pipe.cons_err > 0
    /\ pipe.cons_err_buf < PipeCapacity
    /\ pipe' = [pipe EXCEPT !.cons_err = @ - 1, !.cons_err_buf = @ + 1]
    /\ UNCHANGED << pc, pipe_frame >>

\* tar -x -v writes a unit of its listing into its stdout pipe (line 236)
p_cons_write_out ==
    /\ pipe.cons = "running"
    /\ pipe.cons_out > 0
    /\ pipe.cons_out_buf < PipeCapacity
    /\ pipe' = [pipe EXCEPT !.cons_out = @ - 1, !.cons_out_buf = @ + 1]
    /\ UNCHANGED << pc, pipe_frame >>

\* the consumer has read to the end of the data (the producer exited and the
\* data pipe is empty), has written everything, and exits
p_cons_exit ==
    /\ pipe.cons = "running"
    /\ pipe.prod = "exited" /\ pipe.data_buf = 0
    /\ pipe.cons_err = 0 /\ pipe.cons_out = 0
    /\ pipe' = [pipe EXCEPT !.cons = "exited"]
    /\ UNCHANGED << pc, pipe_frame >>

\* the consumer gives up before the end of the data (bad input, no output
\* file) and exits with what it has written so far
p_cons_fail ==
    /\ pipe.cons = "running"
    /\ pipe.prod_data > 0 \/ pipe.data_buf > 0
    /\ pipe' = [pipe EXCEPT !.cons = "exited", !.cons_err = 0, !.cons_out = 0,
                            !.data_buf = 0]
    /\ UNCHANGED << pc, pipe_frame >>

\* lines 119 and 240: communicate() reads a unit of the consumer's stderr
p_communicate_read_err ==
    /\ pc = "p_communicate"
    /\ pipe.cons_err_buf > 0
    /\ pipe' = [pipe EXCEPT !.cons_err_buf = @ - 1]
    /\ UNCHANGED << pc, pipe_frame >>

\* line 240: communicate() reads a unit of the consumer's stdout
p_communicate_read_out ==
    /\ pc = "p_communicate"
    /\ pipe.cons_out_buf > 0
    /\ pipe' = [pipe EXCEPT !.cons_out_buf = @ - 1]
    /\ UNCHANGED << pc, pipe_frame >>

\* lines 119 and 240: communicate() returns once the consumer's pipes are at
\* their end and the consumer has exited
p_communicate_done ==
    /\ pc = "p_communicate"
    /\ pipe.cons = "exited"
    /\ pipe.cons_err_buf = 0 /\ pipe.cons_out_buf = 0
    /\ pc' = "p_wait"
    /\ UNCHANGED << pipe, pipe_frame >>

\* lines 120 and 241: wait() on the producer returns once it has exited
p_wait_done ==
    /\ pc = "p_wait"
    /\ pipe.prod = "exited"
    /\ pc' = "p_done"
    /\ UNCHANGED << pipe, pipe_frame >>

NextPipe ==
    \/ p_prod_write_data \/ p_prod_sigpipe \/ p_prod_write_err \/ p_prod_exit
    \/ p_cons_read \/ p_cons_write_err \/ p_cons_write_out \/ p_cons_exit
    \/ p_cons_fail
    \/ p_communicate_read_err \/ p_communicate_read_out \/ p_communicate_done
    \/ p_wait_done

SpecPipe == InitPipe /\ [][NextPipe]_vars

(***************************************************************************)
(* Round trip: an upload, then a download of what it stored                *)
(***************************************************************************)
\* a second invocation of the program after a successful upload: download
\* with the backupId and the password of the printed descriptor into a fresh
\* directory (absent or empty); the remote holds the body of the POST
download_after_upload ==
    /\ pc = "exited"
    /\ command = "upload"
    /\ exit_code = 0
    /\ command' = "download"
    /\ backup_id' = outcome.value.backupId
    /\ password_arg' = outcome.value.password
    /\ remote_store' = requests_sent[1].body
    /\ dir_before' \in {Dir(FALSE, <<>>), Dir(TRUE, <<>>)}
    /\ pc' = "m_import"
    /\ password' = None
    /\ dir_now' = dir_before'
    /\ temp_backup' = None
    /\ temp_on_disk' = FALSE
    /\ temp_content' = None
    /\ unlink_failed' = FALSE
    /\ tar_proc' = NoProc
    /\ openssl_proc' = NoProc
    /\ backup_size' = -1
    /\ requests_sent' = <<>>
    /\ response' = NoResponse
    /\ outcome' = NoOutcome
    /\ stderr' = <<>>
    /\ stdout' = <<>>
    /\ exit_code' = -1
    /\ gen_result' = None
    /\ UNCHANGED << files, fs_exists, gen_arg, pipe >>

InitRoundTrip == Init /\ command = "upload"

NextRoundTrip ==
    \/ m_import \/ m_parse_ok \/ check_dependencies
    \/ u_resolve \/ u_validate \/ u_mktemp \/ u_popen_tar \/ u_popen_openssl
    \/ u_communicate \/ u_check_rc \/ u_getsize \/ u_post \/ u_status
    \/ u_result \/ u_finally
    \/ download_after_upload
    \/ d_mktemp \/ d_request \/ d_status \/ d_save \/ d_makedirs
    \/ d_popen_openssl \/ d_popen_tar \/ d_communicate \/ d_check_rc
    \/ d_return \/ d_finally
    \/ m_result \/ m_except

SpecRoundTrip == InitRoundTrip /\ [][NextRoundTrip]_vars


(***************************************************************************)
(* Properties                                                              *)
(***************************************************************************)
\* the call of upload_backup / download_backup has ended
CallEnded == pc \in {"m_result", "m_except", "exited"}
IsUpload == command = "upload"
IsDownload == command = "download"
HasRaised(kind) == outcome.how = "raise" /\ outcome.exc.kind = kind

MissingAt == {i \in 1..Len(files) : files[i] \notin fs_exists}

\* listing holds exactly the paths at the positions pos of files, in input order
ListsInOrder(listing, pos) ==
    /\ Len(listing) = Cardinality(pos)
    /\ \E f \in [1..Len(listing) -> 1..Len(files)] :
         /\ \A j \in 1..Len(listing) : f[j] \in pos /\ listing[j] = files[f[j]]
         /\ \A j, k \in 1..Len(listing) : j < k => f[j] < f[k]

\* C2: when a path given to upload_backup does not exist, the call fails with
\* the files-not-found error listing exactly the missing paths in input order,
\* and no temporary artifact, no process and no request has been made.
C2_MissingPathsRejectedFirst ==
    (IsUpload /\ MissingAt # {}) =>
        /\ pc \in {"m_import", "m_parse", "m_deps", "u_resolve", "u_validate",
                   "m_except", "exited"}
        /\ temp_backup = None /\ ~temp_on_disk
        /\ ~tar_proc.started /\ ~openssl_proc.started
        /\ requests_sent = <<>>
        /\ ((pc = "m_except" \/ (pc = "exited" /\ outcome.how = "raise"))
              /\ ~HasRaised("Missing required tools")) =>
              /\ HasRaised("Files not found")
              /\ outcome.exc.type = "BackupError"
              /\ ListsInOrder(outcome.exc.paths, MissingAt)

\* an upload of one existing and one missing path has ended with the error
\* naming the missing one only
C2_Witness ==
    /\ pc = "exited" /\ IsUpload
    /\ HasRaised("Files not found")
    /\ Len(files) = 2 /\ Len(outcome.exc.paths) = 1
    /\ files[1] \in fs_exists

\* C3: a measured size above 20971520 bytes makes upload_backup fail with the
\* size error, only after tar and openssl both ended with status 0, and no
\* request is issued; a size of at most 20971520 is not rejected.
C3_SizeCheckedAfterEncryption ==
    (IsUpload /\ backup_size # -1) =>
        /\ tar_proc.returncode = Some(0) /\ openssl_proc.returncode = Some(0)
        /\ backup_size > 20971520 =>
              (HasRaised("Backup size exceeds limit") /\ requests_sent = <<>>)
        /\ backup_size <= 20971520 => ~HasRaised("Backup size exceeds limit")

\* an upload measured one byte over the ceiling and ended with the size error
C3_Witness ==
    /\ pc = "exited" /\ IsUpload
    /\ backup_size = 20971521
    /\ HasRaised("Backup size exceeds limit")
    /\ exit_code = 1

\* C4: when the decrypt stage of download_backup ends with a non-zero status,
\* the call raises the decryption error and returns no list, whatever the
\* status of the extract stage.
C4_DecryptFailureReported ==
    (IsDownload /\ pc \in {"d_finally", "m_result", "m_except", "exited"}
       /\ openssl_proc.returncode # None /\ openssl_proc.returncode # Some(0)) =>
        HasRaised("Decryption failed")

\* a download whose decrypt and extract stages both failed has ended with the
\* decryption error
C4_Witness ==
    /\ pc = "exited" /\ IsDownload
    /\ openssl_proc.returncode = Some(1) /\ tar_proc.returncode = Some(2)
    /\ HasRaised("Decryption failed")

\* the status of the answer has been looked at
StatusChecked ==
    response.status_code # 0 /\ pc \notin {"u_status", "d_status", "x_status"}
StatusErrors ==
    {"File too large", "Upload failed", "Backup not found", "Download failed",
     "Delete failed"}
\* the error a rejected status must give: 413 on POST and 404 on GET/DELETE
\* have their own error, every other one the generic error with status and body
StatusErrorIsRight ==
    /\ outcome.how = "raise"
    /\ outcome.exc.type = "BackupError"
    /\ IF IsUpload /\ response.status_code = 413
         THEN outcome.exc.kind = "File too large"
         ELSE IF ~IsUpload /\ response.status_code = 404
           THEN outcome.exc.kind = "Backup not found"
           ELSE /\ outcome.exc.kind = CASE IsUpload -> "Upload failed"
                                         [] IsDownload -> "Download failed"
                                         [] OTHER -> "Delete failed"
                /\ outcome.exc.status = response.status_code
                /\ outcome.exc.text = response.text

\* C5 as stated: every 2xx status is accepted by upload, download and delete
\* (no status error is raised); 413 on POST gives the too-large error, 404 on
\* GET/DELETE the not-found error, any other non-2xx the generic error.
C5_Every2xxAccepted ==
    StatusChecked =>
        IF response.status_code \in 200..299
          THEN ~(outcome.how = "raise" /\ outcome.exc.kind \in StatusErrors)
          ELSE StatusErrorIsRight

\* C5, amended: status 200 is the only status the three operations accept;
\* 413 on POST gives the too-large error, 404 on GET/DELETE the not-found
\* error, and every other status, the other 2xx included, the generic error
\* carrying the status code and the response body.
C5_Only200Accepted ==
    StatusChecked =>
        IF response.status_code = 200
          THEN ~(outcome.how = "raise" /\ outcome.exc.kind \in StatusErrors)
          ELSE StatusErrorIsRight

\* an upload answered 201 has ended with the generic error carrying 201 and
\* the body
C5_Witness ==
    /\ pc = "exited" /\ IsUpload
    /\ response.status_code = 201 /\ response.text = "server message"
    /\ HasRaised("Upload failed")
    /\ outcome.exc.status = 201 /\ outcome.exc.text = "server message"

\* C6: the key of an upload is carried by the returned descriptor only: every
\* request has the fixed URL and headers and the ciphertext as its body, and
\* no line written to standard error holds the password.
C6_PasswordOnlyInDescriptor ==
    (IsUpload /\ password # None) =>
        /\ \A i \in 1..Len(requests_sent) :
             /\ requests_sent[i].url = << BASE_URL, "/backup" >>
             /\ requests_sent[i].headers =
                  << << "Content-Type", "application/octet-stream" >>,
                     << "X-Backup-Filename", "backup.tar.gz" >> >>
             /\ requests_sent[i].body = temp_content
        /\ \A i \in 1..Len(stderr) : stderr[i].secret # password

\* C7: the password of the descriptor a successful upload returns is the key
\* given to openssl in that run: the caller's password unchanged when one was
\* given (the empty string too), else the generated one; a password field of
\* the remote's JSON does not survive.
C7_DescriptorCarriesTheKey ==
    (IsUpload /\ outcome.how = "return") =>
        /\ outcome.value.password = openssl_proc.key
        /\ outcome.value.password # None
        /\ password_arg # None => outcome.value.password = password_arg
        /\ password_arg = None =>
              /\ Len(outcome.value.password[1]) = 32
              /\ \E i \in 1..Len(stderr) :
                   /\ stderr[i].tag = "Auto-generated password"
                   /\ stderr[i].secret = outcome.value.password
        /\ outcome.value.password # Some(RemotePassword)

\* an upload with the empty string as password, answered with a JSON object
\* that has a password field, has returned the empty string as password
C7_Witness ==
    /\ pc = "exited" /\ IsUpload /\ exit_code = 0
    /\ password_arg = Some(<<>>)
    /\ response.json = "object_with_password"
    /\ outcome.how = "return" /\ outcome.value.password = Some(<<>>)

RemoteErrors == {"Backup not found", "Download failed"}
PipelineErrors == {"Decryption failed", "tar extraction failed"}

\* C8 as stated: a download_backup that ends with a remote error, a decryption
\* failure or an extraction failure leaves the destination directory as it was.
C8_FailedDownloadLeavesDirUntouched ==
    (IsDownload /\ CallEnded /\ outcome.how = "raise"
       /\ (outcome.exc.kind \in RemoteErrors \cup PipelineErrors
           \/ outcome.exc.type = "RequestException")) =>
        dir_now = dir_before

\* C8, amended: a download_backup that ends with a remote error (a network
\* exception, 404 or another rejected status) leaves the destination directory
\* as it was; one that ends with a decryption or extraction failure has
\* created the directory and keeps whatever entries the extract stage wrote.
C8_OnlyRemoteErrorsLeaveDirUntouched ==
    (IsDownload /\ CallEnded /\ outcome.how = "raise") =>
        /\ (outcome.exc.kind \in RemoteErrors
            \/ outcome.exc.type = "RequestException") => dir_now = dir_before
        /\ outcome.exc.kind \in PipelineErrors =>
              /\ dir_now.exists
              /\ Len(dir_now.entries) >= Len(dir_before.entries)
              /\ [i \in 1..Len(tar_proc.stdout) |-> dir_now.entries[i].name]
                   = tar_proc.stdout

\* a download into a directory that did not exist has ended with the
\* decryption error, the directory created and an entry written into it
C8_Witness ==
    /\ pc = "exited" /\ IsDownload
    /\ HasRaised("Decryption failed")
    /\ ~dir_before.exists /\ dir_now.exists
    /\ dir_now.entries # <<>>

\* the import of requests at the top of the script went well
requests_imported ==
    ~(stderr # <<>> /\ stderr[1].tag = "Error: 'requests' library not found")
JsonErrorsAt == {i \in 1..Len(stderr) : stderr[i].kind = "json_error"}

\* C9 as stated: the program (with requests importable) ends with exit code 0
\* when the operation succeeded and with 1 on any failure, and on failure
\* exactly one JSON error object is written to standard error.
C9_ExitOneAndJsonOnAnyFailure ==
    (pc = "exited" /\ requests_imported) =>
        IF outcome.how = "return"
          THEN exit_code = 0
          ELSE exit_code = 1 /\ Cardinality(JsonErrorsAt) = 1

\* C9, amended: exit code 0 when the operation succeeded; exit code 1 with
\* exactly one JSON error object, the last line of standard error, when a tool
\* is missing or the operation raises; exit code 1 with the help text on
\* standard output and no JSON error when the subcommand is missing; exit code
\* 1 with a plain message when requests cannot be imported; exit code 2 with
\* argparse's usage message when the arguments are missing or invalid.
C9_ExitCodes ==
    pc = "exited" =>
        CASE outcome.how = "return" ->
               exit_code = 0 /\ JsonErrorsAt = {}
          [] outcome.how = "raise" ->
               exit_code = 1 /\ JsonErrorsAt = {Len(stderr)}
          [] OTHER ->
               /\ JsonErrorsAt = {}
               /\ exit_code = IF command = "invalid" /\ stdout = <<>> /\ Len(stderr) = 1
                                   /\ stderr[1].tag = "usage"
                                THEN 2 ELSE 1
               /\ exit_code = 1 =>
                    \/ command = "none" /\ stderr = <<>> /\ Len(stdout) = 1
                    \/ Len(stderr) = 1
                         /\ stderr[1].tag = "Error: 'requests' library not found"

\* a run whose request failed in the network has ended with exit code 1 and
\* the JSON error after the progress lines
C9_Witness ==
    /\ pc = "exited" /\ exit_code = 1
    /\ outcome.how = "raise" /\ outcome.exc.type = "RequestException"
    /\ Len(stderr) > 1 /\ JsonErrorsAt = {Len(stderr)}
    /\ stderr[Len(stderr)].tag = "Network error"

AlphabetSet == {alphabet[i] : i \in 1..Len(alphabet)}
GeneratedAsAsked ==
    /\ Len(gen_result[1]) = (IF gen_arg = None THEN 32 ELSE gen_arg[1])
    /\ \A i \in 1..Len(gen_result[1]) : gen_result[1][i] \in AlphabetSet

IsRoundTrip == IsDownload /\ remote_store # None

StepOf(at, result) ==
    CASE result.how = "raise" -> 7
      [] result.how = "return" -> 6
      [] at = "u_resolve" -> 1
      [] at = "u_validate" -> 2
      [] at \in {"u_mktemp", "u_popen_tar", "u_popen_openssl", "u_communicate",
                 "u_check_rc"} -> 3
      [] at = "u_getsize" -> 4
      [] at \in {"u_post", "u_status", "u_result"} -> 5
      [] OTHER -> 0

\* the errors with which each step of upload_backup fails
FailuresOfStep(step) ==
    CASE step = 0 -> {"Missing required tools"}
      [] step = 2 -> {"Files not found"}
      [] step = 3 -> {"tempfile", "Popen tar", "Popen openssl",
                      "tar command failed", "openssl encryption failed"}
      [] step = 4 -> {"Backup size exceeds limit"}
      [] step = 5 -> {"post", "File too large", "Upload failed",
                      "response.json", "item assignment"}
      [] OTHER -> {}

\* the checks of the steps before the one the run is at have all passed
EarlierStepsPassed(step) ==
    /\ step \in 2..6 => password # None
    /\ step \in 3..6 => MissingAt = {}
    /\ step \in 4..6 =>
          (tar_proc.returncode = Some(0) /\ openssl_proc.returncode = Some(0))
    /\ step \in 5..6 => (backup_size # -1 /\ backup_size <= 20971520)
    /\ step = 6 => (Len(requests_sent) = 1 /\ response.status_code = 200)

\* C12: a run of upload_backup goes through key resolution, path validation,
\* archive+encrypt, size check, upload and done in that order, one step at a
\* time, each step entered only when the checks before it passed; a failure
\* of a step ends the run as failed, and a failed run starts no process,
\* measures nothing and sends no request any more: only the cleanup runs.
C12_UploadStepsInOrder ==
    /\ [](IsUpload => EarlierStepsPassed(StepOf(pc, outcome)))
    /\ [][IsUpload =>
         LET step == StepOf(pc, outcome)
             next == StepOf(pc', outcome')
         IN  /\ step = 0 => next \in {0, 1, 7}
             /\ step \in {1} => next = 2
             /\ step \in {2, 4} => next \in {step + 1, 7}
             /\ step \in {3, 5} => next \in {step, step + 1, 7}
             /\ step = 6 => next = 6
             /\ step = 7 =>
                   /\ next = 7
                   /\ outcome' = outcome
                   /\ pc' \in {"u_finally", "m_except", "exited"}
                   /\ UNCHANGED << procs, net, backup_size, password,
                                   temp_backup, temp_content >>
             /\ (step # 7 /\ next = 7) =>
                   /\ outcome'.exc.kind \in FailuresOfStep(step)
                   /\ pc' \in {"u_finally", "m_except"}
       ]_vars

\* an upload whose tar ended with a non-zero status has ended as failed, with
\* the artifact removed by the cleanup, no size measured and no request sent
C12_Witness ==
    /\ pc = "exited" /\ IsUpload
    /\ HasRaised("tar command failed")
    /\ tar_proc.returncode = Some(2)
    /\ temp_backup # None /\ ~temp_on_disk
    /\ backup_size = -1 /\ requests_sent = <<>>


\* the request of the run raised instead of answering
RequestRaised == requests_sent # <<>> /\ response.status_code = 0

\* C13: a run of upload_backup, download_backup or delete_backup issues at
\* most one request, of the method of its operation; when the request raises
\* (network failure, timeout) nothing is sent again and the exception of the
\* request is the one the caller of the operation gets.
C13_AtMostOneRequest ==
    /\ Len(requests_sent) <= 1
    /\ requests_sent # <<>> =>
          requests_sent[1].method = CASE IsUpload -> "POST"
                                      [] IsDownload -> "GET"
                                      [] OTHER -> "DELETE"
    /\ RequestRaised =>
          /\ pc \in {"u_finally", "d_finally", "m_except", "exited"}
          /\ outcome.how = "raise"
          /\ outcome.exc.type = "RequestException"
          /\ outcome.exc.kind = CASE IsUpload -> "post"
                                  [] IsDownload -> "get"
                                  [] OTHER -> "delete"
          /\ pc = "exited" =>
                (exit_code = 1 /\ stderr[Len(stderr)].tag = "Network error")

\* a delete whose request raised has ended with that exception after one
\* request
C13_Witness ==
    /\ pc = "exited" /\ command = "delete"
    /\ Len(requests_sent) = 1 /\ RequestRaised
    /\ outcome.exc.type = "RequestException"


\* C14: the pipelines of upload_backup and download_backup never deadlock:
\* whatever the two processes write to their pipes, as long as the program is
\* in communicate() or wait() some process or the program can take a step, so
\* both processes exit and the program gets past both waits.
C14_PipelineNeverStuck ==
    pc \in {"p_communicate", "p_wait"} => ENABLED NextPipe

=============================================================================
